---- MODULE Spec2Model ----
\* Model of pyflow's src/py_versions.rs: resolving a requested Python version
\* to an interpreter (local install -> system alias -> download) and building
\* the project's virtual environment (create_venv).
EXTENDS Integers, Sequences, FiniteSets, TLC

\* ---------------------------------------------------------------- bounds
\* Number of create_venv calls made one after the other in one behaviour.
MaxCalls == 2

\* ---------------------------------------------------------------- values
\* Option<T>: None, or Some(x).
None == <<>>
Some(x) == <<x>>
Unwrap(o) == o[1]

\* dep_types::Version as used here: three public integer fields.
Version(ma, mi, pa) == [major |-> ma, minor |-> mi, patch |-> pa]

Digits == <<"0", "1", "2", "3", "4", "5", "6", "7", "8", "9">>

\* Decimal rendering of a non-negative integer ({} in format!).
RECURSIVE NatToStr(_)
NatToStr(n) ==
    IF n < 10 THEN Digits[n + 1]
    ELSE NatToStr(n \div 10) \o Digits[(n % 10) + 1]

\* Version::to_string2: the dotted version string used in folder names.
to_string2(v) ==
    NatToStr(v.major) \o "." \o NatToStr(v.minor) \o "." \o NatToStr(v.patch)

\* enum PyVers: the hosted builds.
PyVers == {"V3_7_4", "V3_6_9", "V3_5_6", "V3_4_10"}

AbortMajor == "Unsupported python version requested; only Python 3 is supported"
AbortMinor == "Unsupported python version requested; only Python >=3.4 is supported"
ConfigErrors == {AbortMajor, AbortMinor}

\* impl From<Version> for PyVers: a PyVers, or the message util::abort is
\* called with.
PyVersFrom_AnyMinor(v) ==
    IF v.major # 3 THEN AbortMajor
    ELSE CASE v.minor = 4 -> "V3_4_10"
           [] v.minor = 5 -> "V3_5_6"
           [] v.minor = 6 -> "V3_6_9"
           [] OTHER       -> "V3_7_4"

PyVersFrom(v) ==
    IF v.major # 3 THEN AbortMajor
    ELSE CASE v.minor = 4 -> "V3_4_10"
           [] v.minor = 5 -> "V3_5_6"
           [] v.minor = 6 -> "V3_6_9"
           [] v.minor = 7 -> "V3_7_4"
           [] OTHER       -> AbortMinor

\* impl ToString for PyVers
PyVersToString(pv) ==
    CASE pv = "V3_7_4"  -> "3.7.4"
      [] pv = "V3_6_9"  -> "3.6.9"
      [] pv = "V3_5_6"  -> "3.5.6"
      [] pv = "V3_4_10" -> "3.4.10"

\* PyVers::to_vers
to_vers(pv) ==
    CASE pv = "V3_7_4"  -> Version(3, 7, 4)
      [] pv = "V3_6_9"  -> Version(3, 6, 9)
      [] pv = "V3_5_6"  -> Version(3, 5, 6)
      [] pv = "V3_4_10" -> Version(3, 4, 10)

\* Platform selection (#[cfg(target_os = "linux")]).
os == "ubuntu"
py_name == "python3"
python_installs_dir == "~/.python-installs"

\* File and folder names of download().
ArchiveName(vers_to_dl) == "python-" \o vers_to_dl \o "-" \o os \o ".tar.xz"
TaggedFolder(vers_to_dl) == "python-" \o vers_to_dl \o "-" \o os
ExtractedFolder(vers_to_dl) == "python-" \o vers_to_dl

\* python_installs_dir.join(folder_name).join("bin").join(py_name)
InterpreterPath(folder_name) == <<python_installs_dir, folder_name, "bin", py_name>>

\* The (major, minor) comparison used by both the local scan and the alias
\* probe.
SameMajorMinor(a, b) == a.major = b.major /\ a.minor = b.minor

\* ---------------------------------------------------------------- aliases
possible_aliases ==
    << "python3.10", "python3.9", "python3.8", "python3.7", "python3.6",
       "python3.5", "python3.4", "python3.3", "python3.2", "python3.1",
       "python3", "python", "python2" >>

AliasNames == {possible_aliases[i] : i \in 1..Len(possible_aliases)}

\* find_py_aliases: the loop over possible_aliases from index i on, probing
\* each name in the environment env (name -> what commands::find_py_version
\* returns for it: None or Some(Version)).
RECURSIVE AliasLoop(_, _, _, _)
AliasLoop(version, env, i, result) ==
    IF i > Len(possible_aliases) THEN result
    ELSE LET a == possible_aliases[i]
             v == env[a]
         IN  IF v # None /\ SameMajorMinor(Unwrap(v), version)
             THEN AliasLoop(version, env, i + 1, Append(result, <<a, Unwrap(v)>>))
             ELSE AliasLoop(version, env, i + 1, result)

find_py_aliases_NoFilter(version, env) ==
    LET present == SelectSeq(possible_aliases, LAMBDA a : env[a] # None)
    IN  [k \in 1..Len(present) |-> <<present[k], Unwrap(env[present[k]])>>]

find_py_aliases(version, env) == AliasLoop(version, env, 1, <<>>)

\* str::parse::<usize>() : an optional '+' followed by one or more decimal
\* digits; anything else is an error (None).
IsDigit(c) == \E d \in 1..10 : Digits[d] = c
DigitVal(c) == (CHOOSE d \in 1..10 : Digits[d] = c) - 1

RECURSIVE DigitsVal(_, _)
DigitsVal(s, acc) ==
    IF s = <<>> THEN acc ELSE DigitsVal(Tail(s), acc * 10 + DigitVal(Head(s)))

ParseUsize(s) ==
    LET body == IF s # <<>> /\ Head(s) = "+" THEN Tail(s) ELSE s
    IN  IF body = <<>> \/ \E k \in 1..Len(body) : ~IsDigit(body[k])
        THEN None
        ELSE Some(DigitsVal(body, 0))

\* Result<T, E> of an operation that may panic or abort with a message.
Ok(x) == <<"Ok", x>>
Err(m) == <<"Err", m>>
IsOk(r) == r[1] = "Ok"

\* prompt_alias: input is the line read from stdin, as its characters (empty
\* at end of input); InvalidByte stands for a byte that is not valid UTF-8,
\* on which read_line returns an error. Only the first character of the line
\* is parsed (input.chars().next()). The result is Ok((alias, version)), or
\* Err(message) when one of the four expect() calls panics.
InvalidByte == "0xff"
StdinProblem == "Unable to read user input for version"
ReadProblem == "Problem reading input"
ParseProblem == "Enter the number associated with the Python alias."
LookupProblem ==
    "Can't find the Python alias associated with that number. Is it in the list above?"

prompt_alias(aliases, input) ==
    IF \E i \in 1..Len(input) : input[i] = InvalidByte THEN Err(StdinProblem)
    ELSE IF input = <<>> THEN Err(ReadProblem)
    ELSE LET n == ParseUsize(<<Head(input)>>)
         IN  IF n = None THEN Err(ParseProblem)
             ELSE IF Unwrap(n) \in 1..Len(aliases) THEN Ok(aliases[Unwrap(n)])
             ELSE Err(LookupProblem)

\* ---------------------------------------------------------------- local scan
\* All orders in which read_dir may yield the entries of S.
RECURSIVE Orders(_)
Orders(S) ==
    IF S = {} THEN {<<>>}
    ELSE UNION {{<<x>> \o t : t \in Orders(S \ {x})} : x \in S}

\* A folder whose name is not valid UTF-8: Path::to_str() returns None for it.
NonUtf8Folder == "python-0xff"
IsUtf8(name) == name # NonUtf8Folder

\* The messages find_installed_versions ends the call with.
CreateDirProblem == "Problem creating ~/python-installs directory"
ReadDirProblem == "Can't open python installs path"
UnwrapNone == "called Option::unwrap() on a None value"
ScanErrors == {CreateDirProblem, ReadDirProblem, UnwrapNone}

\* find_installed_versions, lines 239-249: the loop body for one entry the
\* listing returned. An entry that is not a directory when is_dir() looks (an
\* archive file, or a folder renamed away since the listing) is passed over;
\* to_str().unwrap() panics on a directory whose name is not valid UTF-8; the
\* version the probe of <entry>/bin/<py_name> reports, if any, is pushed.
\* dirs maps each folder of the installs directory to what that probe returns.
ScanEntry(dirs, entry, result) ==
    IF entry \notin DOMAIN dirs THEN Ok(result)
    ELSE IF ~IsUtf8(entry) THEN Err(UnwrapNone)
    ELSE IF dirs[entry] # None THEN Ok(Append(result, Unwrap(dirs[entry])))
    ELSE Ok(result)

\* find_installed_versions, lines 234-251, on a directory nothing else
\* changes meanwhile: Ok(the versions reported by the entries, in directory
\* order), or Err(message) when the loop body panics on an entry.
RECURSIVE ScanLoop(_, _, _)
ScanLoop(dirs, order, result) ==
    IF order = <<>> THEN Ok(result)
    ELSE LET r == ScanEntry(dirs, Head(order), result)
         IN  IF IsOk(r) THEN ScanLoop(dirs, Tail(order), r[2]) ELSE r

find_installed_versions(dirs, order) == ScanLoop(dirs, order, <<>>)

\* create_venv, lines 275-287: the first installed version with the requested
\* (major, minor), as [alias_path, py_ver]; both None without a match.
RECURSIVE MatchLoop_RequestedPatch(_, _)
MatchLoop_RequestedPatch(installed, cfg) ==
    IF installed = <<>> THEN [alias_path |-> None, py_ver |-> None]
    ELSE LET iv == Head(installed)
         IN  IF SameMajorMinor(iv, cfg)
             THEN [alias_path |-> Some(InterpreterPath("python-" \o to_string2(cfg))),
                   py_ver |-> Some(iv)]
             ELSE MatchLoop_RequestedPatch(Tail(installed), cfg)

RECURSIVE MatchLoop(_, _)
MatchLoop(installed, cfg) ==
    IF installed = <<>> THEN [alias_path |-> None, py_ver |-> None]
    ELSE LET iv == Head(installed)
         IN  IF SameMajorMinor(iv, cfg)
             THEN [alias_path |-> Some(InterpreterPath("python-" \o to_string2(iv))),
                   py_ver |-> Some(iv)]
             ELSE MatchLoop(Tail(installed), cfg)

\* create_venv, line 292 and line 309: the two `if py_ver.is_none()` guards.
SearchAliases_Always(pv) == TRUE

SearchAliases(pv) == pv = None

NeedDownload_Always(pv) == TRUE

NeedDownload(pv) == pv = None

\* create_venv, lines 294-305: the arm `match aliases.len()` takes.
AliasArm_PromptAlways(n) == IF n = 0 THEN "none" ELSE "prompt"

AliasArm_SingleIgnored(n) == IF n >= 2 THEN "prompt" ELSE "none"

AliasArm(n) ==
    CASE n = 0 -> "none"
      [] n = 1 -> "single"
      [] OTHER -> "prompt"

\* ---------------------------------------------------------------- state
Procs == {1, 2}

VARIABLES
    path_env,            \* system PATH: alias name -> find_py_version result
    installs_dir,        \* ~/.python-installs exists
    archives,            \* archive files there: name -> "partial" | "complete"
    folders,             \* folders there: name -> probe result of bin/<py_name>
    empty_dirs,          \* the folders there that hold no entry at all
    lib_dirs,            \* <project>/<major>.<minor>/lib directories that exist
    venv_bins,           \* environments whose python and pip executables exist
    ncalls,              \* create_venv calls started so far
    downloads,           \* the versions of the download() runs that returned
    pc,                  \* position of each invocation in create_venv
    cfg_v,               \* the requested version
    installed_versions,  \* result of find_installed_versions()
    listed,              \* entries read_dir returned that the loop has yet to visit
    aliases,             \* result of find_py_aliases()
    input,               \* the line the operator typed at the prompt
    alias, alias_path, py_ver,   \* the three locals of create_venv
    wheel_status,        \* outcome of the `pip install wheel` command
    ret,                 \* the Version create_venv returned
    abort_msg,           \* message of the abort or panic that ended the call
    log                  \* external operations invoked by the call, in order
                         \* ("venv_err" marks an Err from the venv command)

fs_vars == <<installs_dir, archives, folders, empty_dirs>>
proj_vars == <<lib_dirs, venv_bins>>
local_vars == <<cfg_v, installed_versions, listed, aliases, input, alias, alias_path,
                py_ver, wheel_status, ret, abort_msg>>
vars == <<path_env, fs_vars, proj_vars, ncalls, downloads, pc, local_vars, log>>

\* ---------------------------------------------------------------- inputs
\* Versions a project may request: the lowest hosted minor and another hosted
\* minor that only a download can serve, the hosted minor that a PATH or an
\* installs directory may also hold, a minor above the catalog, and Python 2.
Requests ==
    { Version(3, 4, 0), Version(3, 6, 0), Version(3, 7, 0),
      Version(3, 8, 0), Version(2, 7, 0) }

\* System PATH configurations: any combination of two of the candidate names
\* being absent or reporting one of two versions, and the PATH on which every
\* candidate name is the same interpreter.
SparseNames == {"python3.7", "python3"}
PathVersions == {Version(3, 7, 3), Version(3, 8, 1)}
PathEnvs ==
    { [a \in AliasNames |-> IF a \in SparseNames THEN f[a] ELSE None] :
        f \in [SparseNames -> {None} \cup {Some(v) : v \in PathVersions}] }
    \cup { [a \in AliasNames |-> Some(Version(3, 7, 3))] }

\* Contents of the installs directory before the first call: missing, empty,
\* holding an earlier download of 3.7.4, holding a 3.8 interpreter, or holding
\* the extracted but not yet renamed folder of a download of 3.7.4 that was
\* interrupted between the extraction and the rename, or holding a folder
\* whose name is not valid UTF-8, or holding the archive of 3.7.4 next to a
\* python-3.7.4 folder with nothing in it.
NoFiles == [n \in {} |-> None]
InstallsInits ==
    { [dir |-> FALSE, archives |-> NoFiles, folders |-> NoFiles, empty |-> {}],
      [dir |-> TRUE, archives |-> NoFiles, folders |-> NoFiles, empty |-> {}],
      [dir |-> TRUE, archives |-> (ArchiveName("3.7.4") :> "complete"),
       folders |-> (ExtractedFolder("3.7.4") :> Some(Version(3, 7, 4))),
       empty |-> {}],
      [dir |-> TRUE, archives |-> NoFiles,
       folders |-> ("python-3.8.0" :> Some(Version(3, 8, 0))), empty |-> {}],
      [dir |-> TRUE, archives |-> (ArchiveName("3.7.4") :> "complete"),
       folders |-> (TaggedFolder("3.7.4") :> Some(Version(3, 7, 4))),
       empty |-> {}],
      [dir |-> TRUE, archives |-> NoFiles, folders |-> (NonUtf8Folder :> None),
       empty |-> {}],
      [dir |-> TRUE, archives |-> (ArchiveName("3.7.4") :> "complete"),
       folders |-> (ExtractedFolder("3.7.4") :> None),
       empty |-> {ExtractedFolder("3.7.4")}] }

\* Lines the operator may type at the prompt.
Inputs ==
    { <<>>, <<"\n">>, <<"a", "\n">>, <<"0", "\n">>, <<"1", "\n">>,
      <<"2", "\n">>, <<"3", "\n">>, <<"9", "\n">>, <<"1", "0", "\n">>,
      <<"1", "3", "\n">>, <<"2", "a", "\n">>, <<"+", "1", "\n">>,
      <<InvalidByte, "1", "\n">> }

Init ==
    /\ path_env \in PathEnvs
    /\ \E i \in InstallsInits :
         /\ installs_dir = i.dir
         /\ archives = i.archives
         /\ folders = i.folders
         /\ empty_dirs = i.empty
    /\ lib_dirs = {}
    /\ venv_bins = {}
    /\ ncalls = 0
    /\ downloads = <<>>
    /\ pc = [p \in Procs |-> "idle"]
    /\ cfg_v = [p \in Procs |-> Version(3, 7, 0)]
    /\ installed_versions = [p \in Procs |-> <<>>]
    /\ listed = [p \in Procs |-> {}]
    /\ aliases = [p \in Procs |-> <<>>]
    /\ input = [p \in Procs |-> <<>>]
    /\ alias = [p \in Procs |-> None]
    /\ alias_path = [p \in Procs |-> None]
    /\ py_ver = [p \in Procs |-> None]
    /\ wheel_status = [p \in Procs |-> "not run"]
    /\ ret = [p \in Procs |-> None]
    /\ abort_msg = [p \in Procs |-> ""]
    /\ log = [p \in Procs |-> <<>>]

\* ---------------------------------------------------------------- helpers
Logged(p, e) == log' = [log EXCEPT ![p] = Append(@, e)]
Logged2(p, e1, e2) == log' = [log EXCEPT ![p] = @ \o <<e1, e2>>]

\* util::abort / a panicking expect(): the call ends with the message.
Abort(p, msg) ==
    /\ pc' = [pc EXCEPT ![p] = "aborted"]
    /\ abort_msg' = [abort_msg EXCEPT ![p] = msg]

Goto(p, label) == pc' = [pc EXCEPT ![p] = label]

\* ---------------------------------------------------------------- create_venv
\* A call of create_venv(cfg_v, pyypackages_dir), lines 256-270:
\* dirs::home_dir() returns the home directory or None, and None panics.
HomeProblem == "Problem finding home directory"

Call(p, v) ==
    /\ pc[p] \in {"idle", "done", "aborted"}
    /\ ncalls < MaxCalls
    /\ ncalls' = ncalls + 1
    /\ \E home_dir \in {None, Some("~")} :
         IF home_dir = None
         THEN /\ pc' = [pc EXCEPT ![p] = "aborted"]
              /\ abort_msg' = [abort_msg EXCEPT ![p] = HomeProblem]
         ELSE /\ pc' = [pc EXCEPT ![p] = "scan"]
              /\ abort_msg' = [abort_msg EXCEPT ![p] = ""]
    /\ cfg_v' = [cfg_v EXCEPT ![p] = v]
    /\ installed_versions' = [installed_versions EXCEPT ![p] = <<>>]
    /\ listed' = [listed EXCEPT ![p] = {}]
    /\ aliases' = [aliases EXCEPT ![p] = <<>>]
    /\ input' = [input EXCEPT ![p] = <<>>]
    /\ alias' = [alias EXCEPT ![p] = None]
    /\ alias_path' = [alias_path EXCEPT ![p] = None]
    /\ py_ver' = [py_ver EXCEPT ![p] = None]
    /\ wheel_status' = [wheel_status EXCEPT ![p] = "not run"]
    /\ ret' = [ret EXCEPT ![p] = None]
    /\ log' = [log EXCEPT ![p] = <<>>]
    /\ UNCHANGED <<path_env, fs_vars, proj_vars, downloads>>

\* find_installed_versions, line 228: python_installs_dir.exists() is false.
ScanMissing(p) ==
    /\ pc[p] = "scan"
    /\ ~installs_dir
    /\ Goto(p, "create_dir")
    /\ Logged(p, "scan")
    /\ UNCHANGED <<path_env, fs_vars, proj_vars, ncalls, downloads, cfg_v, installed_versions, listed,
                   aliases, input, alias, alias_path, py_ver, wheel_status, ret, abort_msg>>

\* find_installed_versions, lines 229-231: fs::create_dir, which fails when
\* the directory has been created since the test of line 228, or for a reason
\* of its own.
ScanCreateDir(p) ==
    /\ pc[p] = "create_dir"
    /\ \/ /\ ~installs_dir
          /\ installs_dir' = TRUE
          /\ Goto(p, "read_dir")
          /\ Logged(p, "create_installs_dir")
          /\ UNCHANGED abort_msg
       \/ /\ Abort(p, CreateDirProblem)
          /\ UNCHANGED <<installs_dir, log>>
    /\ UNCHANGED <<path_env, archives, folders, empty_dirs, proj_vars, ncalls, downloads, cfg_v,
                   installed_versions, listed, aliases, input, alias, alias_path, py_ver,
                   wheel_status, ret>>

\* create_venv, lines 274-287 and the guards of lines 292 and 309, once
\* find_installed_versions has returned found: the loop that takes the first
\* matching version, and where the call goes from there.
ScanReturns(p, found) ==
    LET m == MatchLoop(found, cfg_v[p])
    IN  /\ installed_versions' = [installed_versions EXCEPT ![p] = found]
        /\ alias_path' = [alias_path EXCEPT ![p] = m.alias_path]
        /\ py_ver' = [py_ver EXCEPT ![p] = m.py_ver]
        /\ Goto(p, IF SearchAliases(m.py_ver) THEN "aliases"
                   ELSE IF NeedDownload(m.py_ver) THEN "download"
                   ELSE "lib")

\* find_installed_versions, lines 228 (the directory exists) and 234-237:
\* read_dir, which panics when the directory cannot be opened and otherwise
\* lists the entries the directory holds at that moment; the loop body then
\* visits them one at a time. Only the folders are kept in listed: the other
\* entries are archive files, which is_dir() (line 240) passes over whenever
\* it looks, since nothing removes a file or replaces it by a folder. A
\* listing without folders makes the function return at once.
Scan(p) ==
    /\ \/ pc[p] = "scan" /\ installs_dir
       \/ pc[p] = "read_dir"
    /\ IF pc[p] = "scan" THEN Logged(p, "scan") ELSE UNCHANGED log
    /\ \/ /\ Abort(p, ReadDirProblem)
          /\ UNCHANGED <<installed_versions, listed, alias_path, py_ver>>
       \/ LET entries == DOMAIN folders
          IN  /\ listed' = [listed EXCEPT ![p] = entries]
              /\ IF entries = {}
                 THEN ScanReturns(p, <<>>)
                 ELSE /\ Goto(p, "probe")
                      /\ UNCHANGED <<installed_versions, alias_path, py_ver>>
              /\ UNCHANGED abort_msg
    /\ UNCHANGED <<path_env, fs_vars, proj_vars, ncalls, downloads, cfg_v, aliases,
                   input, alias, wheel_status, ret>>

\* find_installed_versions, lines 238-250: one turn of the loop, on the next
\* entry of the listing, in whatever order the directory yields them. The
\* is_dir() test and the probe look at the directory as it is now, which
\* another invocation may have changed since the listing. After the last
\* entry the function returns and create_venv goes on (lines 274-287).
ProbeEntry(p) ==
    /\ pc[p] = "probe"
    /\ \E entry \in listed[p] :
         LET rest == listed[p] \ {entry}
             r == ScanEntry(folders, entry, installed_versions[p])
         IN  /\ listed' = [listed EXCEPT ![p] = rest]
             /\ IF ~IsOk(r)
                THEN /\ Abort(p, r[2])
                     /\ UNCHANGED <<installed_versions, alias_path, py_ver>>
                ELSE /\ IF rest = {}
                        THEN ScanReturns(p, r[2])
                        ELSE /\ installed_versions' =
                                    [installed_versions EXCEPT ![p] = r[2]]
                             /\ UNCHANGED <<pc, alias_path, py_ver>>
                     /\ UNCHANGED abort_msg
    /\ UNCHANGED <<path_env, fs_vars, proj_vars, ncalls, downloads, cfg_v, aliases,
                   input, alias, wheel_status, ret, log>>

\* Lines 292-307: find_py_aliases and the match on the number of aliases
\* (the prompt itself is the next step).
FindAliases(p) ==
    /\ pc[p] = "aliases"
    /\ LET found == find_py_aliases(cfg_v[p], path_env)
       IN  /\ aliases' = [aliases EXCEPT ![p] = found]
           /\ CASE AliasArm(Len(found)) = "none" ->
                     /\ Goto(p, IF NeedDownload(py_ver[p]) THEN "download" ELSE "lib")
                     /\ UNCHANGED <<alias, py_ver>>
                [] AliasArm(Len(found)) = "single" ->
                     /\ alias' = [alias EXCEPT ![p] = Some(found[1][1])]
                     /\ py_ver' = [py_ver EXCEPT ![p] = Some(found[1][2])]
                     /\ Goto(p, IF NeedDownload(Some(found[1][2])) THEN "download"
                                ELSE "lib")
                [] OTHER ->
                     /\ Goto(p, "prompt")
                     /\ UNCHANGED <<alias, py_ver>>
    /\ Logged(p, "probe_aliases")
    /\ UNCHANGED <<path_env, fs_vars, proj_vars, ncalls, downloads, cfg_v, installed_versions, listed,
                   input, alias_path, wheel_status, ret, abort_msg>>

\* Lines 302-304: prompt_alias(&aliases) with the line the operator types.
Prompt(p) ==
    /\ pc[p] = "prompt"
    /\ \E line \in Inputs :
         LET r == prompt_alias(aliases[p], line)
         IN  /\ input' = [input EXCEPT ![p] = line]
             /\ IF IsOk(r)
                THEN /\ alias' = [alias EXCEPT ![p] = Some(r[2][1])]
                     /\ py_ver' = [py_ver EXCEPT ![p] = Some(r[2][2])]
                     /\ Goto(p, IF NeedDownload(Some(r[2][2])) THEN "download"
                                ELSE "lib")
                     /\ UNCHANGED abort_msg
                ELSE /\ Abort(p, r[2])
                     /\ UNCHANGED <<alias, py_ver>>
    /\ Logged(p, "prompt")
    /\ UNCHANGED <<path_env, fs_vars, proj_vars, ncalls, downloads, cfg_v, installed_versions, listed,
                   aliases, alias_path, wheel_status, ret>>

\* ---------------------------------------------------------------- download
\* fs::rename(from, to) on directories: from must exist, and to must be
\* absent or an empty directory, which the rename replaces; empty is the set
\* of the folders of dirs that hold nothing.
RenameSucceeds_Overwrites(dirs, empty, from, to) == from \in DOMAIN dirs

RenameSucceeds(dirs, empty, from, to) ==
    /\ from \in DOMAIN dirs
    /\ to \in DOMAIN dirs => to \in empty

\* The archive-exists test of line 103.
ArchiveExists(files, name) == name \in DOMAIN files

\* The handle create_venv builds after download(), lines 313-322.
DownloadedHandle_Requested(cfg, pv) ==
    [py_ver |-> Some(cfg),
     alias_path |-> Some(InterpreterPath("python-" \o PyVersToString(pv)))]

DownloadedHandle(cfg, pv) ==
    [py_ver |-> Some(to_vers(pv)),
     alias_path |-> Some(InterpreterPath("python-" \o PyVersToString(pv)))]

\* Line 312 and download(), lines 92-103: the catalog lookup (which aborts for
\* a version that is not hosted) and the archive-exists test.
DownloadStart(p) ==
    /\ pc[p] = "download"
    /\ LET pv == PyVersFrom(cfg_v[p])
       IN  IF pv \notin PyVers
           THEN Abort(p, pv)
           ELSE /\ Goto(p, IF ArchiveExists(archives, ArchiveName(PyVersToString(pv)))
                           THEN "extract" ELSE "fetch")
                /\ UNCHANGED abort_msg
    /\ Logged(p, "download")
    /\ UNCHANGED <<path_env, fs_vars, proj_vars, ncalls, downloads, cfg_v, installed_versions, listed,
                   aliases, input, alias, alias_path, py_ver, wheel_status, ret>>

\* Lines 109-111: reqwest::get(&url), then File::create(&archive_path), which
\* creates the file (or truncates it) under its final name; either may fail.
Fetch(p) ==
    /\ pc[p] = "fetch"
    /\ LET name == ArchiveName(PyVersToString(PyVersFrom(cfg_v[p])))
       IN  \/ /\ Abort(p, "Problem downloading Python")
              /\ UNCHANGED archives
           \/ /\ Abort(p, "Failed to save downloaded package file")
              /\ UNCHANGED archives
           \/ /\ archives' = (name :> "partial") @@ archives
              /\ Goto(p, "copy")
              /\ UNCHANGED abort_msg
    /\ Logged(p, "fetch")
    /\ UNCHANGED <<path_env, installs_dir, folders, empty_dirs, proj_vars, ncalls, downloads, cfg_v,
                   installed_versions, listed, aliases, input, alias, alias_path, py_ver,
                   wheel_status, ret>>

\* Line 112: io::copy of the response body into the archive file.
Copy(p) ==
    /\ pc[p] = "copy"
    /\ LET name == ArchiveName(PyVersToString(PyVersFrom(cfg_v[p])))
       IN  \/ /\ Abort(p, "failed to copy content")
              /\ UNCHANGED archives
           \/ /\ archives' = (name :> "complete") @@ archives
              /\ Goto(p, "extract")
              /\ UNCHANGED abort_msg
    /\ UNCHANGED <<path_env, installs_dir, folders, empty_dirs, proj_vars, ncalls, downloads, cfg_v,
                   installed_versions, listed, aliases, input, alias, alias_path, py_ver,
                   wheel_status, ret, log>>

\* util::unpack_tar_xz(archive, dest): a complete archive of a hosted build
\* unpacks to the OS-tagged folder, whose interpreter reports the build's
\* version when it runs on this host; an incomplete archive fails to unpack.
UnpackResults(files, name, pv) ==
    IF name \in DOMAIN files /\ files[name] = "complete"
    THEN {Some(to_vers(pv)), None}
    ELSE {}

\* Line 116: util::unpack_tar_xz(&archive_path, &py_install_path).
Extract(p) ==
    /\ pc[p] = "extract"
    /\ LET pv == PyVersFrom(cfg_v[p])
           vers_to_dl == PyVersToString(pv)
           results == UnpackResults(archives, ArchiveName(vers_to_dl), pv)
       IN  IF results = {}
           THEN /\ Abort(p, "Problem unpacking archive")
                /\ UNCHANGED <<folders, empty_dirs>>
           ELSE /\ \E r \in results :
                     folders' = (TaggedFolder(vers_to_dl) :> r) @@ folders
                /\ empty_dirs' = empty_dirs \ {TaggedFolder(vers_to_dl)}
                /\ Goto(p, "rename")
                /\ UNCHANGED abort_msg
    /\ Logged(p, "extract")
    /\ UNCHANGED <<path_env, installs_dir, archives, proj_vars, ncalls, downloads, cfg_v,
                   installed_versions, listed, aliases, input, alias, alias_path, py_ver,
                   wheel_status, ret>>

\* Lines 119-125 and, back in create_venv, lines 313-322: the rename of the
\* OS-tagged folder to python-<version>, then the path-based handle.
Rename(p) ==
    /\ pc[p] = "rename"
    /\ LET pv == PyVersFrom(cfg_v[p])
           vers_to_dl == PyVersToString(pv)
           from == TaggedFolder(vers_to_dl)
           to == ExtractedFolder(vers_to_dl)
           h == DownloadedHandle(cfg_v[p], pv)
       IN  IF RenameSucceeds(folders, empty_dirs, from, to)
           THEN /\ folders' = [n \in (DOMAIN folders \ {from}) \cup {to} |->
                                 IF n = to THEN folders[from] ELSE folders[n]]
                /\ empty_dirs' = (empty_dirs \ {from, to})
                                    \cup (IF from \in empty_dirs THEN {to} ELSE {})
                /\ downloads' = Append(downloads, vers_to_dl)
                /\ py_ver' = [py_ver EXCEPT ![p] = h.py_ver]
                /\ alias_path' = [alias_path EXCEPT ![p] = h.alias_path]
                /\ Goto(p, "lib")
                /\ UNCHANGED abort_msg
           ELSE /\ Abort(p, "Problem renaming extracted Python folder")
                /\ UNCHANGED <<folders, empty_dirs, downloads, py_ver, alias_path>>
    /\ Logged(p, "rename")
    /\ UNCHANGED <<path_env, installs_dir, archives, proj_vars, ncalls, cfg_v,
                   installed_versions, listed, aliases, input, alias, wheel_status, ret>>

\* ---------------------------------------------------------------- environment
\* Line 327: the environment folder name, "<major>.<minor>".
VersFolder_Patch(v) == NatToStr(v.major) \o "." \o NatToStr(v.patch)

VersFolder(v) == NatToStr(v.major) \o "." \o NatToStr(v.minor)

\* Lines 325-330: py_ver.expect(), then the test lib_path.exists().
LibPathExists(p) ==
    /\ pc[p] = "lib"
    /\ IF py_ver[p] = None
       THEN Abort(p, "missing Python version")
       ELSE /\ Goto(p, IF VersFolder(Unwrap(py_ver[p])) \in lib_dirs THEN "venv"
                       ELSE "create_lib")
            /\ UNCHANGED abort_msg
    /\ UNCHANGED <<path_env, fs_vars, proj_vars, ncalls, downloads, cfg_v, installed_versions, listed,
                   aliases, input, alias, alias_path, py_ver, wheel_status, ret, log>>

\* Line 331: fs::create_dir_all(&lib_path), which is Ok also when the folder
\* has been created since the test of line 330.
MakeLibDir(p) ==
    /\ pc[p] = "create_lib"
    /\ Logged(p, "create_lib_dir")
    /\ \/ /\ lib_dirs' = lib_dirs \cup {VersFolder(Unwrap(py_ver[p]))}
          /\ Goto(p, "venv")
          /\ UNCHANGED abort_msg
       \/ /\ Abort(p, "Problem creating __pypackages__ directory")
          /\ UNCHANGED lib_dirs
    /\ UNCHANGED <<path_env, fs_vars, venv_bins, ncalls, downloads, cfg_v, installed_versions, listed,
                   aliases, input, alias, alias_path, py_ver, wheel_status, ret>>

\* Which create-venv primitive lines 337-345 run: by alias, by path, or none.
VenvCommand(al, ap) ==
    IF al # None THEN "create_venv"
    ELSE IF ap # None THEN "create_venv2"
    ELSE "none"

\* commands::create_venv2(path, ...) can succeed only when the interpreter at
\* that path exists and runs; commands::create_venv(alias, ...) runs a name
\* the alias probe just ran.
VenvCanSucceed(al, ap, dirs) ==
    CASE VenvCommand(al, ap) = "create_venv" -> TRUE
      [] VenvCommand(al, ap) = "create_venv2" ->
            /\ Unwrap(ap)[2] \in DOMAIN dirs
            /\ dirs[Unwrap(ap)[2]] # None
      [] OTHER -> FALSE

\* Lines 338 and 342: `if commands::create_venv*(..).is_err() { util::abort }`.
VenvErrAborts_Ignored(is_err) == FALSE

VenvErrAborts(is_err) == is_err

\* Lines 337-345: create the virtual environment; an Err aborts. Its
\* executables appear in time for the wait that follows, or never do.
CreateVenv(p) ==
    /\ pc[p] = "venv"
    /\ LET name == VersFolder(Unwrap(py_ver[p]))
           cmd == VenvCommand(alias[p], alias_path[p])
       IN  \E is_err \in BOOLEAN :
              /\ is_err => cmd # "none"
              /\ (~is_err /\ cmd # "none") =>
                     VenvCanSucceed(alias[p], alias_path[p], folders)
              /\ IF VenvErrAborts(is_err)
                 THEN /\ Abort(p, "Problem creating virtual environment")
                      /\ UNCHANGED venv_bins
                 ELSE /\ \E appears \in BOOLEAN :
                           venv_bins' =
                               IF appears /\ ~is_err /\ cmd # "none"
                               THEN venv_bins \cup {name} ELSE venv_bins
                      /\ Goto(p, "wait")
                      /\ UNCHANGED abort_msg
              /\ IF is_err THEN Logged2(p, "create_venv", "venv_err")
                           ELSE Logged(p, "create_venv")
    /\ UNCHANGED <<path_env, fs_vars, lib_dirs, ncalls, downloads, cfg_v, installed_versions, listed,
                   aliases, input, alias, alias_path, py_ver, wheel_status, ret>>

\* Lines 365-368: util::wait_for_dirs on the venv's python and pip.
WaitForDirs(p) ==
    /\ pc[p] = "wait"
    /\ IF VersFolder(Unwrap(py_ver[p])) \in venv_bins
       THEN /\ Goto(p, "wheel")
            /\ UNCHANGED abort_msg
       ELSE Abort(p, "Timed out waiting for venv to be created.")
    /\ Logged(p, "wait")
    /\ UNCHANGED <<path_env, fs_vars, proj_vars, ncalls, downloads, cfg_v, installed_versions, listed,
                   aliases, input, alias, alias_path, py_ver, wheel_status, ret>>

\* Outcomes of Command::status() for `python -m pip install --quiet wheel`.
WheelOutcomes == {"spawn failed", "exit nonzero", "exit zero"}

\* Lines 372-375: .status().expect(..) panics only when the command could not
\* be run; the exit status it returns is dropped.
WheelPanics(st) == st = "spawn failed"

\* Lines 372-377: install wheel, then return py_ver.
InstallWheel(p) ==
    /\ pc[p] = "wheel"
    /\ \E st \in WheelOutcomes :
         /\ wheel_status' = [wheel_status EXCEPT ![p] = st]
         /\ IF WheelPanics(st)
            THEN /\ Abort(p, "Problem installing wheel")
                 /\ UNCHANGED ret
            ELSE /\ ret' = [ret EXCEPT ![p] = py_ver[p]]
                 /\ Goto(p, "done")
                 /\ UNCHANGED abort_msg
    /\ Logged(p, "install_wheel")
    /\ UNCHANGED <<path_env, fs_vars, proj_vars, ncalls, downloads, cfg_v, installed_versions, listed,
                   aliases, input, alias, alias_path, py_ver>>

\* ---------------------------------------------------------------- specification
\* One invocation at a time: the calls of process 1, one after the other.
SeqProcs == {1}

Step(p) ==
    \/ \E v \in Requests : Call(p, v)
    \/ ScanMissing(p)
    \/ ScanCreateDir(p)
    \/ Scan(p)
    \/ ProbeEntry(p)
    \/ FindAliases(p)
    \/ Prompt(p)
    \/ DownloadStart(p)
    \/ Fetch(p)
    \/ Copy(p)
    \/ Extract(p)
    \/ Rename(p)
    \/ LibPathExists(p)
    \/ MakeLibDir(p)
    \/ CreateVenv(p)
    \/ WaitForDirs(p)
    \/ InstallWheel(p)

Next == \E p \in SeqProcs : Step(p)

Spec == Init /\ [][Next]_vars

\* Two invocations of the tool running at the same time on one installs
\* directory and one project directory, each a single call of create_venv;
\* nothing in download or create_venv takes a lock, so their steps interleave
\* freely.
CallOnce(p, v) == pc[p] = "idle" /\ Call(p, v)

StepConc(p) ==
    \/ \E v \in Requests : CallOnce(p, v)
    \/ ScanMissing(p)
    \/ ScanCreateDir(p)
    \/ Scan(p)
    \/ ProbeEntry(p)
    \/ FindAliases(p)
    \/ Prompt(p)
    \/ DownloadStart(p)
    \/ Fetch(p)
    \/ Copy(p)
    \/ Extract(p)
    \/ Rename(p)
    \/ LibPathExists(p)
    \/ MakeLibDir(p)
    \/ CreateVenv(p)
    \/ WaitForDirs(p)
    \/ InstallWheel(p)

NextConc == \E p \in Procs : StepConc(p)

SpecConc == Init /\ [][NextConc]_vars

\* ---------------------------------------------------------------- properties
Has(p, e) == \E i \in 1..Len(log[p]) : log[p][i] = e
Count(p, e) == Cardinality({i \in 1..Len(log[p]) : log[p][i] = e})
LastEvent(p) == IF log[p] = <<>> THEN "" ELSE log[p][Len(log[p])]
Ended(p) == pc[p] \in {"done", "aborted"}

\* The scan of this call yielded a version with the requested (major, minor).
LocalMatch(p) ==
    \E i \in 1..Len(installed_versions[p]) :
        /\ installed_versions[p][i].major = cfg_v[p].major
        /\ installed_versions[p][i].minor = cfg_v[p].minor

\* The candidate names that, on this PATH, report the requested (major, minor).
MatchingNames(p) ==
    {a \in AliasNames :
        /\ path_env[a] # None
        /\ Unwrap(path_env[a]).major = cfg_v[p].major
        /\ Unwrap(path_env[a]).minor = cfg_v[p].minor}

\* The requested version is outside the hosted catalog.
HostedMinors == {4, 5, 6, 7}
Unsupported(v) == v.major # 3 \/ v.minor \notin HostedMinors

\* C1: in every create_venv call, a local match means that the alias probe,
\* the prompt and download are never invoked in that call, and download is
\* invoked only when the local scan and the alias probe both found nothing.
C1_PriorityChain ==
    \A p \in Procs :
        /\ LocalMatch(p) =>
              /\ ~Has(p, "probe_aliases")
              /\ ~Has(p, "prompt")
              /\ ~Has(p, "download")
              /\ pc[p] \notin {"aliases", "prompt", "download"}
        /\ (Has(p, "download") \/ pc[p] = "download") =>
              /\ ~LocalMatch(p)
              /\ Has(p, "probe_aliases")
              /\ MatchingNames(p) = {}

\* A call that found a local match has run to its end.
C1_Witness ==
    \E p \in Procs : LocalMatch(p) /\ pc[p] = "done" /\ MatchingNames(p) # {}

\* C2 as stated: a call for a version outside the catalog ends in a
\* configuration-error abort, having created no installs directory, fetched,
\* extracted or renamed nothing, and created no project directory. (A call
\* that ended inside the scan of the installs directory is not counted against
\* the statement.)
C2_Original ==
    \A p \in Procs :
        (Unsupported(cfg_v[p]) /\ Has(p, "scan")) =>
            /\ ~Has(p, "create_installs_dir")
            /\ ~Has(p, "fetch") /\ ~Has(p, "extract") /\ ~Has(p, "rename")
            /\ ~Has(p, "create_lib_dir")
            /\ (Ended(p) /\ abort_msg[p] \notin ScanErrors) =>
                  (pc[p] = "aborted" /\ abort_msg[p] \in ConfigErrors)

\* C2 as amended: a call for a version outside the catalog never fetches,
\* extracts or renames; and when neither the local scan nor the alias probe
\* found a match it ends in a configuration-error abort without creating a
\* project directory. (The scan may create the installs directory, and a
\* matched call goes on to build the environment.)
C2_Amended ==
    \A p \in Procs :
        (Unsupported(cfg_v[p]) /\ Has(p, "scan")) =>
            /\ ~Has(p, "fetch") /\ ~Has(p, "extract") /\ ~Has(p, "rename")
            /\ pc[p] \notin {"fetch", "copy", "extract", "rename"}
            /\ (Has(p, "probe_aliases") /\ ~LocalMatch(p) /\ MatchingNames(p) = {}) =>
                  /\ ~Has(p, "create_lib_dir")
                  /\ pc[p] \in {"download", "aborted"}
                  /\ pc[p] = "aborted" => abort_msg[p] \in ConfigErrors

\* A call for an unhosted version has aborted with the configuration error.
C2_Witness ==
    \E p \in Procs :
        /\ Unsupported(cfg_v[p])
        /\ pc[p] = "aborted"
        /\ abort_msg[p] \in ConfigErrors
        /\ Has(p, "download")

\* The hosted build's dotted version for a hosted (3, minor) request.
HostedVersion(m) ==
    CASE m = 4 -> Version(3, 4, 10)
      [] m = 5 -> Version(3, 5, 6)
      [] m = 6 -> Version(3, 6, 9)
      [] m = 7 -> Version(3, 7, 4)

\* This call's run of download() has returned.
DownloadReturned(p) ==
    Has(p, "rename") /\ ~(pc[p] = "aborted" /\ LastEvent(p) = "rename")

\* The number of runs of download() for version string vs that returned
\* before this call's run.
EarlierRuns(p, vs) ==
    Cardinality({i \in 1..Len(downloads) : downloads[i] = vs})
        - (IF DownloadReturned(p) /\ cfg_v[p].major = 3
              /\ cfg_v[p].minor \in HostedMinors
              /\ to_string2(HostedVersion(cfg_v[p].minor)) = vs THEN 1 ELSE 0)

\* C3: a run of download for a version that an earlier run of download has
\* installed, with that run's archive still there, does not fetch and does not
\* fail: extract and rename succeed and python-<version> is present.
C3_SecondRunSucceeds ==
    \A p \in Procs :
        LET vs == to_string2(HostedVersion(cfg_v[p].minor))
        IN  ( /\ ~Unsupported(cfg_v[p])
              /\ Has(p, "download")
              /\ EarlierRuns(p, vs) >= 1
              /\ ArchiveName(vs) \in DOMAIN archives ) =>
                /\ ~Has(p, "fetch")
                /\ pc[p] = "aborted" => LastEvent(p) \notin {"extract", "rename"}
                /\ DownloadReturned(p) => ExtractedFolder(vs) \in DOMAIN folders

\* A second run of download() for the same version has ended.
C3_Reached ==
    \E p \in Procs :
        /\ ~Unsupported(cfg_v[p])
        /\ EarlierRuns(p, to_string2(HostedVersion(cfg_v[p].minor))) >= 1
        /\ Has(p, "extract")
        /\ ~Has(p, "fetch")

\* C4: create_venv returns a version only when the wheel install succeeded; a
\* failed install, a non-zero exit status included, aborts the call.
C4_WheelFailureFatal ==
    \A p \in Procs :
        /\ (pc[p] = "done" /\ ret[p] # None) => wheel_status[p] = "exit zero"
        /\ wheel_status[p] \in {"spawn failed", "exit nonzero"} =>
              (pc[p] = "aborted" /\ ret[p] = None)

\* C5: in a call that reached the alias probe, exactly one matching alias
\* means no prompt, that alias as the alias-based handle and no download; two
\* or more mean exactly one prompt in that call.
C5_PromptOnlyOnTie ==
    \A p \in Procs :
        Has(p, "probe_aliases") =>
            /\ Cardinality(MatchingNames(p)) = 1 =>
                  /\ Count(p, "prompt") = 0 /\ pc[p] # "prompt"
                  /\ ~Has(p, "download") /\ pc[p] # "download"
                  /\ alias[p] # None /\ Unwrap(alias[p]) \in MatchingNames(p)
                  /\ alias_path[p] = None
                  /\ py_ver[p] = path_env[Unwrap(alias[p])]
            /\ Cardinality(MatchingNames(p)) >= 2 =>
                  Count(p, "prompt") = (IF pc[p] = "prompt" THEN 0 ELSE 1)

\* A call with exactly one matching alias has returned.
C5_Witness ==
    \E p \in Procs :
        /\ Cardinality(MatchingNames(p)) = 1
        /\ Has(p, "probe_aliases")
        /\ pc[p] = "done"
        /\ alias[p] # None

\* The line an operator types to enter the number k.
RECURSIVE NatToChars(_)
NatToChars(n) ==
    IF n < 10 THEN <<Digits[n + 1]>>
    ELSE NatToChars(n \div 10) \o <<Digits[(n % 10) + 1]>>
NumberLine(k) == NatToChars(k) \o <<"\n">>

\* C6: when the operator enters the number k printed beside an entry
\* (1 <= k <= n), prompt_alias returns the k-th pair of the list shown: the
\* prompt does not end the call, and the call goes on with that pair.
C6_SelectsKth ==
    \A p \in Procs :
        \A k \in 1..Len(aliases[p]) :
            (Has(p, "prompt") /\ input[p] = NumberLine(k)) =>
                /\ ~(pc[p] = "aborted" /\ LastEvent(p) = "prompt")
                /\ alias[p] = Some(aliases[p][k][1])
                /\ py_ver[p] = Some(aliases[p][k][2])

\* The typed line without its line end.
WholeLine(line) ==
    IF line # <<>> /\ line[Len(line)] = "\n" THEN SubSeq(line, 1, Len(line) - 1)
    ELSE line

\* The response is not a number of the list of n entries.
BadResponse(line, n) ==
    \/ ParseUsize(WholeLine(line)) = None
    \/ Unwrap(ParseUsize(WholeLine(line))) \notin 1..n

\* C7: an unparseable or out-of-range response aborts the call: no alias is
\* selected, no second prompt, no download, no virtual environment.
C7_BadResponseAborts ==
    \A p \in Procs :
        (Has(p, "prompt") /\ BadResponse(input[p], Len(aliases[p]))) =>
            /\ pc[p] = "aborted"
            /\ alias[p] = None
            /\ Count(p, "prompt") = 1
            /\ ~Has(p, "download")
            /\ ~Has(p, "create_venv")

\* C8: for a hosted (3, m) request with no local and no alias match the call
\* goes to download, fetches the hosted build's archive unless it is cached,
\* builds the handle <installs>/python-<hosted version>/bin/<py_name> and
\* returns the hosted build's version.
C8_DownloadsHostedBuild ==
    \A p \in Procs :
        (~Unsupported(cfg_v[p]) /\ Has(p, "probe_aliases")
            /\ ~LocalMatch(p) /\ MatchingNames(p) = {}) =>
            LET hv == HostedVersion(cfg_v[p].minor)
                file == "python-" \o to_string2(hv) \o "-ubuntu.tar.xz"
            IN  /\ Has(p, "download") \/ pc[p] = "download"
                /\ pc[p] = "fetch" => file \notin DOMAIN archives
                /\ pc[p] \in {"copy", "extract"} => file \in DOMAIN archives
                /\ Has(p, "extract") => (Has(p, "fetch") \/ file \in DOMAIN archives)
                /\ DownloadReturned(p) =>
                      /\ alias[p] = None
                      /\ alias_path[p] =
                            Some(<<"~/.python-installs", "python-" \o to_string2(hv),
                                   "bin", "python3">>)
                      /\ py_ver[p] = Some(hv)
                /\ pc[p] = "done" => ret[p] = Some(hv)

\* A 3.7.0 request was served by a fresh download and returned 3.7.4.
C8_Witness ==
    \E p \in Procs :
        /\ cfg_v[p] = Version(3, 7, 0)
        /\ ~LocalMatch(p) /\ MatchingNames(p) = {}
        /\ Has(p, "fetch")
        /\ pc[p] = "done"
        /\ ret[p] = Some(Version(3, 7, 4))

\* C9: where create_venv creates the virtual environment, exactly one of
\* alias and alias_path is populated, from exactly one source, and the
\* confirmed version is set.
C9_OneHandle ==
    \A p \in Procs :
        pc[p] = "venv" =>
            LET fromLocal == LocalMatch(p)
                fromAlias == Has(p, "probe_aliases") /\ MatchingNames(p) # {}
                fromDownload == Has(p, "download")
            IN  /\ (alias[p] # None) # (alias_path[p] # None)
                /\ py_ver[p] # None
                /\ Cardinality({x \in {"local", "alias", "download"} :
                       \/ x = "local" /\ fromLocal
                       \/ x = "alias" /\ fromAlias
                       \/ x = "download" /\ fromDownload}) = 1
                /\ (alias[p] # None) <=> fromAlias

\* The environment is about to be created from an alias-based handle.
C9_Witness ==
    \E p \in Procs : pc[p] = "venv" /\ alias[p] # None /\ alias_path[p] = None

\* Position of a candidate name in the fixed list.
AliasIndex(a) == CHOOSE i \in 1..Len(possible_aliases) : possible_aliases[i] = a

\* C10: find_py_aliases returns exactly the candidates whose probe succeeded
\* with the requested (major, minor), in list order; other candidates never
\* appear and never cause an error.
C10_ExactlyMatching ==
    \A p \in Procs :
        Has(p, "probe_aliases") =>
            /\ \A i \in 1..Len(aliases[p]) :
                  /\ aliases[p][i][1] \in MatchingNames(p)
                  /\ path_env[aliases[p][i][1]] = Some(aliases[p][i][2])
            /\ \A a \in MatchingNames(p) :
                  \E i \in 1..Len(aliases[p]) : aliases[p][i][1] = a
            /\ \A i, j \in 1..Len(aliases[p]) :
                  i < j => AliasIndex(aliases[p][i][1]) < AliasIndex(aliases[p][j][1])
            /\ ~(pc[p] = "aborted" /\ LastEvent(p) = "probe_aliases")

\* A probe that met a failing candidate, a candidate of another version and
\* a matching one.
C10_Witness ==
    \E p \in Procs :
        /\ Has(p, "probe_aliases")
        /\ Len(aliases[p]) = 1
        /\ \E a \in AliasNames : path_env[a] = None
        /\ \E a \in AliasNames : path_env[a] # None /\ a \notin MatchingNames(p)

\* The environment folder named after the (major, minor) of version v.
EnvFolderOf(v) ==
    CASE v.major = 3 /\ v.minor = 4 -> "3.4"
      [] v.major = 3 /\ v.minor = 5 -> "3.5"
      [] v.major = 3 /\ v.minor = 6 -> "3.6"
      [] v.major = 3 /\ v.minor = 7 -> "3.7"
      [] v.major = 3 /\ v.minor = 8 -> "3.8"
      [] v.major = 2 /\ v.minor = 7 -> "2.7"
      [] OTHER -> "other"

\* C11: on a successful call the environment folder is named <major>.<minor>
\* of the version the call returns, and that (major, minor) is the requested
\* one whichever source supplied the interpreter; the call creates no folder
\* of another name.
C11_FolderOfConfirmedVersion ==
    /\ \A p \in Procs :
          pc[p] = "done" =>
              /\ ret[p] # None
              /\ EnvFolderOf(Unwrap(ret[p])) \in lib_dirs
              /\ EnvFolderOf(Unwrap(ret[p])) \in venv_bins
              /\ Unwrap(ret[p]).major = cfg_v[p].major
              /\ Unwrap(ret[p]).minor = cfg_v[p].minor
    /\ \A p \in Procs :
          (Has(p, "create_lib_dir") /\ pc[p] # "aborted") =>
              EnvFolderOf(cfg_v[p]) \in lib_dirs
    /\ \A p \in Procs :
          (ncalls = 1 /\ Has(p, "scan")) => lib_dirs \subseteq {EnvFolderOf(cfg_v[p])}

\* A 3.7.0 request served by the download of 3.7.4 has returned, with the
\* environment folder 3.7 created.
C11_Witness ==
    \E p \in Procs :
        /\ pc[p] = "done"
        /\ Has(p, "download")
        /\ Has(p, "create_lib_dir")
        /\ cfg_v[p].patch # Unwrap(ret[p]).patch
        /\ "3.7" \in lib_dirs

\* C12: a file that exists under an archive's final name
\* python-<version>-<platform>.tar.xz is a completely fetched archive.
C12_ArchiveAlwaysComplete ==
    \A n \in DOMAIN archives : archives[n] = "complete"

\* C13: when the local scan yields a match, the path handle is the
\* <entry>/bin/<interpreter> of a directory entry that the scan probed and
\* that reported the selected version, whatever the entry is called.
C13_HandleIsProbedEntry ==
    \A p \in Procs :
        (pc[p] \notin {"idle", "scan"} /\ LocalMatch(p) /\ alias_path[p] # None) =>
            \E e \in DOMAIN folders :
                /\ folders[e] = py_ver[p]
                /\ Unwrap(alias_path[p]) = <<python_installs_dir, e, "bin", py_name>>

\* This call asks for a hosted (3, minor) after an earlier call's download of
\* the hosted version v of that minor returned, and its scan ran with the
\* installed interpreter python-<v>/bin/<interpreter> reporting v.
AfterDownload(p) ==
    /\ log[p] # <<>>
    /\ cfg_v[p].major = 3
    /\ cfg_v[p].minor \in HostedMinors
    /\ pc[p] \notin {"create_dir", "read_dir", "probe"}
    /\ abort_msg[p] \notin ScanErrors
    /\ downloads # <<>>
    /\ LET v == HostedVersion(cfg_v[p].minor)
       IN  /\ ExtractedFolder(to_string2(v)) \in DOMAIN folders
           /\ folders[ExtractedFolder(to_string2(v))] = Some(v)
           /\ EarlierRuns(p, to_string2(v)) >= 1

\* C14: after a call resolved its interpreter through a successful download of
\* v, a later call for the same (major, minor), with the installed interpreter
\* reporting v, resolves through the local install python-<v>/bin/<interpreter>
\* and runs neither the alias probe nor the download.
C14_LaterCallsUseLocalInstall ==
    \A p \in Procs :
        AfterDownload(p) =>
            /\ py_ver[p] = Some(HostedVersion(cfg_v[p].minor))
            /\ alias_path[p] =
                   Some(<<python_installs_dir,
                          "python-" \o to_string2(HostedVersion(cfg_v[p].minor)),
                          "bin", py_name>>)
            /\ alias[p] = None
            /\ \A i \in 1..Len(log[p]) :
                  log[p][i] \notin {"probe_aliases", "prompt", "download", "fetch",
                                    "extract", "rename"}

\* The second call for 3.6 has returned from the local install that the first
\* call downloaded.
C14_Witness ==
    \E p \in Procs :
        /\ AfterDownload(p)
        /\ cfg_v[p].minor = 6
        /\ ncalls = 2
        /\ pc[p] = "done"
        /\ ret[p] = Some(Version(3, 6, 9))

\* The events that may directly follow event e in the log of a call.
EnvSucc(e) ==
    CASE e = "create_lib_dir" -> {"create_venv"}
      [] e = "create_venv" -> {"venv_err", "wait"}
      [] e = "wait" -> {"install_wheel"}
      [] e \in {"venv_err", "install_wheel"} -> {}
      [] OTHER -> {"scan", "create_installs_dir", "probe_aliases", "prompt", "download",
                   "fetch", "extract", "rename", "create_lib_dir", "create_venv"}

\* C15: the environment-building steps run in the order create lib directory,
\* create venv, wait for the executables, install wheel, return, each gating
\* the next: the wait directly follows a venv command that did not fail, the
\* wheel install directly follows a wait that saw the executables, a call
\* returns only after the wheel install, and a failed venv command or a
\* timed-out wait ends the call with no wheel install and no returned version.
C15_EnvStepsInOrder ==
    \A p \in Procs :
        /\ \A i \in 1..Len(log[p]) :
              /\ i < Len(log[p]) => log[p][i + 1] \in EnvSucc(log[p][i])
              /\ log[p][i] = "create_lib_dir" =>
                    pc[p] \in {"venv", "wait", "wheel", "done", "aborted"}
              /\ log[p][i] = "create_venv" => EnvFolderOf(cfg_v[p]) \in lib_dirs
              /\ log[p][i] = "venv_err" => (pc[p] = "aborted" /\ log[p][i - 1] = "create_venv")
              /\ log[p][i] = "wait" => (i > 1 /\ log[p][i - 1] = "create_venv")
              /\ log[p][i] = "install_wheel" =>
                    /\ i > 1 /\ log[p][i - 1] = "wait"
                    /\ EnvFolderOf(cfg_v[p]) \in venv_bins
        /\ pc[p] = "done" => LastEvent(p) = "install_wheel"
        /\ pc[p] = "wheel" => LastEvent(p) = "wait"
        /\ pc[p] = "wait" => LastEvent(p) = "create_venv"
        /\ ret[p] # None => pc[p] = "done"
        /\ (pc[p] = "aborted" /\ LastEvent(p) \in {"venv_err", "wait"}) => ret[p] = None

\* A call created the lib directory and the venv, saw the executables,
\* installed wheel and has returned.
C15_Witness ==
    \E p \in Procs :
        /\ pc[p] = "done"
        /\ Has(p, "create_lib_dir")
        /\ Has(p, "create_venv")
        /\ Has(p, "wait")
        /\ LastEvent(p) = "install_wheel"
        /\ ret[p] # None

\* The messages of the aborts of the environment-building steps.
EnvBuildErrors ==
    { "Problem creating __pypackages__ directory",
      "Problem creating virtual environment",
      "Timed out waiting for venv to be created.",
      "Problem installing wheel" }

\* C17: the hosted catalog is consulted only in the download branch. A
\* configuration-error abort happens only in download, after the local scan
\* and the alias probe both ran and found nothing; a call for a version outside
\* the catalog that a local install or a single system alias matches selects
\* that interpreter and goes on to build the environment.
C17_CatalogOnlyInDownload ==
    \A p \in Procs :
        /\ abort_msg[p] \in ConfigErrors =>
              /\ pc[p] = "aborted"
              /\ Has(p, "scan")
              /\ Has(p, "probe_aliases")
              /\ LastEvent(p) = "download"
              /\ ~LocalMatch(p)
              /\ MatchingNames(p) = {}
              /\ aliases[p] = <<>>
              /\ py_ver[p] = None
        /\ (Unsupported(cfg_v[p]) /\ LocalMatch(p) /\ pc[p] # "probe"
                /\ abort_msg[p] \notin ScanErrors) =>
              /\ py_ver[p] # None /\ alias_path[p] # None
              /\ ~Has(p, "probe_aliases") /\ ~Has(p, "download")
              /\ pc[p] \in {"lib", "create_lib", "venv", "wait", "wheel", "done", "aborted"}
              /\ pc[p] = "aborted" => abort_msg[p] \in EnvBuildErrors
        /\ (Unsupported(cfg_v[p]) /\ Has(p, "probe_aliases")
                /\ Cardinality(MatchingNames(p)) = 1) =>
              /\ alias[p] # None /\ alias[p] = Some(CHOOSE a \in MatchingNames(p) : TRUE)
              /\ py_ver[p] = path_env[Unwrap(alias[p])]
              /\ ~Has(p, "download")
              /\ pc[p] \in {"lib", "create_lib", "venv", "wait", "wheel", "done", "aborted"}
              /\ pc[p] = "aborted" => abort_msg[p] \in EnvBuildErrors

\* A call for 3.8, outside the catalog, has returned 3.8.1 from a system alias.
C17_Witness ==
    \E p \in Procs :
        /\ Unsupported(cfg_v[p])
        /\ pc[p] = "done"
        /\ alias[p] # None
        /\ Has(p, "probe_aliases")
        /\ ret[p] = Some(Version(3, 8, 1))

\* Two distinct invocations ask for the same hosted (3, minor) and both have
\* entered download.
SameDownload(p, q) ==
    /\ p # q
    /\ cfg_v[p].major = 3 /\ cfg_v[q].major = 3
    /\ cfg_v[p].minor = cfg_v[q].minor
    /\ cfg_v[p].minor \in HostedMinors
    /\ Has(p, "download") /\ Has(q, "download")

\* C16: no lock guards the installs directory. Two overlapping invocations for
\* the same version that is not installed both pass the archive-exists check
\* and both fetch, extract and rename on the same paths; they never both
\* return from download, and an invocation whose rename fails leaves the
\* version installed under python-<version> by the other one.
C16_RaceOnInstallsDir ==
    \A p \in Procs : \A q \in Procs :
        SameDownload(p, q) =>
            /\ ~(DownloadReturned(p) /\ DownloadReturned(q))
            /\ (pc[p] = "aborted" /\ LastEvent(p) = "rename") =>
                  /\ DownloadReturned(q)
                  /\ ExtractedFolder(to_string2(HostedVersion(cfg_v[p].minor)))
                         \in DOMAIN folders

\* Both invocations found no archive and fetched, both extracted and both ran
\* the rename; one aborted at the rename, the other returned from download with
\* a working python-<version>.
C16_Witness ==
    \E p \in Procs : \E q \in Procs :
        /\ SameDownload(p, q)
        /\ Has(p, "fetch") /\ Has(q, "fetch")
        /\ Has(p, "extract") /\ Has(q, "extract")
        /\ Has(p, "rename") /\ Has(q, "rename")
        /\ pc[p] = "aborted"
        /\ abort_msg[p] = "Problem renaming extracted Python folder"
        /\ DownloadReturned(q)
        /\ pc[q] = "done"
        /\ folders[ExtractedFolder(to_string2(HostedVersion(cfg_v[q].minor)))]
               = Some(HostedVersion(cfg_v[q].minor))

====
